---- MODULE Spec2Model ----
(***************************************************************************)
(* k3w-screensaver: the wttr.in client (fetch with cache fallback, payload *)
(* normalization), the render command and the R2 uploader.                 *)
(*                                                                         *)
(* JSON objects are functions whose DOMAIN is the set of keys present, so  *)
(* d[k] on an absent key is a KeyError and d.get(k, x) is Get(d, k, x).    *)
(* JSON strings that the code hands to int() are sequences of one-letter   *)
(* strings, so that int() is a real parse that can fail.  A Python call    *)
(* that may raise yields Ok(v) or Raise(e).                                *)
(***************************************************************************)
EXTENDS Integers, Sequences, FiniteSets, TLC

---------------------------------------------------------------------------
(* Python values and exceptions *)

Ok(v) == [ok |-> TRUE, v |-> v]
Raise(e) == [ok |-> FALSE, err |-> e]

\* dict.get(k, default)
Get(d, k, default) == IF k \in DOMAIN d THEN d[k] ELSE default

\* d[k]: KeyError when the key is absent
Item(d, k) == IF k \in DOMAIN d THEN Ok(d[k]) ELSE Raise("KeyError")

\* The first failing result of a sequence of results evaluated in order
RECURSIVE FirstRaise(_)
FirstRaise(rs) ==
    IF Len(rs) = 0 THEN Ok(<<>>)
    ELSE IF ~Head(rs).ok THEN Head(rs)
    ELSE FirstRaise(Tail(rs))

---------------------------------------------------------------------------
(* int(): the parse of a decimal literal with an optional sign *)

DigitValue ==
    [c \in {"0", "1", "2", "3", "4", "5", "6", "7", "8", "9"} |->
        CASE c = "0" -> 0 [] c = "1" -> 1 [] c = "2" -> 2 [] c = "3" -> 3
          [] c = "4" -> 4 [] c = "5" -> 5 [] c = "6" -> 6 [] c = "7" -> 7
          [] c = "8" -> 8 [] c = "9" -> 9]

IsDigits(s) == Len(s) > 0 /\ \A i \in 1..Len(s) : s[i] \in DOMAIN DigitValue

RECURSIVE DigitsValue(_)
DigitsValue(s) ==
    IF s = <<>> THEN 0
    ELSE 10 * DigitsValue(SubSeq(s, 1, Len(s) - 1)) + DigitValue[s[Len(s)]]

\* int(s) for a str s: ValueError unless s is [sign] digits
int(s) ==
    IF IsDigits(s) THEN Ok(DigitsValue(s))
    ELSE IF Len(s) > 1 /\ s[1] = "-" /\ IsDigits(Tail(s)) THEN Ok(0 - DigitsValue(Tail(s)))
    ELSE Raise("ValueError")

\* int(d[k]): KeyError when the key is absent, ValueError when it is no number
IntItem(d, k) == IF k \in DOMAIN d THEN int(d[k]) ELSE Raise("KeyError")

\* _safe_int(value): int(str(value)), the default on ValueError
or_default(r, default) == IF r.ok THEN r.v ELSE default

_safe_int(value, default) == or_default(int(value), default)

\* _safe_int(d.get(k)): an absent key gives None, str(None) is "None", which
\* is no number, so the default
_safe_int_get(d, k, default) ==
    IF k \in DOMAIN d THEN _safe_int(d[k], default) ELSE default

---------------------------------------------------------------------------
(* dateutil's parser on the two text shapes wttr.in sends: an ISO calendar *)
(* date "YYYY-MM-DD" and a 12-hour clock time "HH:MM AM"; any other text   *)
(* is a ParserError, which is a ValueError.                                *)

Abs(x) == IF x < 0 THEN 0 - x ELSE x

\* date_parser.parse(text).date()
parse_date(s) ==
    IF Len(s) = 10 /\ s[5] = "-" /\ s[8] = "-"
       /\ IsDigits(SubSeq(s, 1, 4)) /\ IsDigits(SubSeq(s, 6, 7)) /\ IsDigits(SubSeq(s, 9, 10))
       /\ DigitsValue(SubSeq(s, 6, 7)) \in 1..12
       /\ DigitsValue(SubSeq(s, 9, 10)) \in 1..31
    THEN Ok([year |-> DigitsValue(SubSeq(s, 1, 4)),
             month |-> DigitsValue(SubSeq(s, 6, 7)),
             day |-> DigitsValue(SubSeq(s, 9, 10))])
    ELSE Raise("ValueError")

\* date_parser.parse(text).time(): 12 AM is hour 0, 12 PM is hour 12
parse_time(s) ==
    IF Len(s) = 8 /\ s[3] = ":" /\ s[6] = " " /\ s[7] \in {"A", "P"} /\ s[8] = "M"
       /\ IsDigits(SubSeq(s, 1, 2)) /\ IsDigits(SubSeq(s, 4, 5))
       /\ DigitsValue(SubSeq(s, 1, 2)) \in 1..12
       /\ DigitsValue(SubSeq(s, 4, 5)) \in 0..59
    THEN Ok([hour |-> (DigitsValue(SubSeq(s, 1, 2)) % 12) + (IF s[7] = "P" THEN 12 ELSE 0),
             minute |-> DigitsValue(SubSeq(s, 4, 5))])
    ELSE Raise("ValueError")

\* _parse_local_datetime: "YYYY-MM-DD HH:MM AM"
datetime_of(date, time) ==
    IF date.ok /\ time.ok THEN Ok([date |-> date.v, time |-> time.v])
    ELSE Raise("ValueError")

_parse_local_datetime(s) ==
    IF Len(s) = 19 /\ s[11] = " "
    THEN datetime_of(parse_date(SubSeq(s, 1, 10)), parse_time(SubSeq(s, 12, 19)))
    ELSE Raise("ValueError")

---------------------------------------------------------------------------
(* Icons (icons.py) *)

DEFAULT_ICON == "skc"

CODE_ICON_MAP ==
    [skc |-> {113}, few |-> {116}, bkn |-> {119}, ovc |-> {122}, mist |-> {143},
     fg |-> {248, 260},
     shra |-> {176, 263, 296, 353, 356},
     ra |-> {266, 293, 299, 302},
     ra1 |-> {305, 308, 359},
     sn |-> {179, 227, 230, 323, 326, 329, 332, 335, 338, 368, 371},
     mix |-> {182, 185, 317, 320, 362, 365},
     fzra |-> {281, 284, 311, 314},
     ip |-> {350, 374, 377},
     tsra |-> {200, 386, 389, 392, 395}]

\* The ids of the icon table, the closed vocabulary
IconIds == DOMAIN CODE_ICON_MAP

\* The dict's insertion order, which the lookup loop follows
ICON_ORDER ==
    <<"skc", "few", "bkn", "ovc", "mist", "fg", "shra", "ra", "ra1", "sn", "mix",
      "fzra", "ip", "tsra">>

\* A lookup that knows one code for each icon, the smallest of its set
RECURSIVE icon_lookup_first_code(_, _)
icon_lookup_first_code(code, i) ==
    IF i > Len(ICON_ORDER) THEN DEFAULT_ICON
    ELSE IF \A c \in CODE_ICON_MAP[ICON_ORDER[i]] : code <= c /\ code \in CODE_ICON_MAP[ICON_ORDER[i]]
    THEN ICON_ORDER[i]
    ELSE icon_lookup_first_code(code, i + 1)

RECURSIVE icon_lookup(_, _)
icon_lookup(code, i) ==
    IF i > Len(ICON_ORDER) THEN DEFAULT_ICON
    ELSE IF code \in CODE_ICON_MAP[ICON_ORDER[i]] THEN ICON_ORDER[i]
    ELSE icon_lookup(code, i + 1)

\* A lookup that hands an unrecognized code through as text
icon_name_for_code_raw(code) ==
    IF icon_lookup(code, 1) = DEFAULT_ICON /\ code \notin CODE_ICON_MAP[DEFAULT_ICON]
    THEN ToString(code)
    ELSE icon_lookup(code, 1)

icon_name_for_code(code) ==
    IF code = 0 THEN DEFAULT_ICON ELSE icon_lookup(code, 1)

\* The argument of icon_name_for_code, an int or None
NoCode == [given |-> FALSE]

Code(n) == [given |-> TRUE, n |-> n]

\* icon_name_for_code on int | None: "if not code" takes None as it takes 0
icon_name_for_optional_code(arg) ==
    IF ~arg.given THEN DEFAULT_ICON ELSE icon_name_for_code(arg.n)

\* @functools.lru_cache(maxsize=64)
maxsize == 64

\* The files of PNG_DIR, by stem: one for each icon id of the table
PNG_FILES == {ICON_ORDER[i] : i \in 1..Len(ICON_ORDER)}

\* The body of render_icon: the PNG of the icon, or of the default icon when
\* there is no such file, as an "LA" image fitted into size x size.  serial
\* numbers the loads, so that two images loaded apart are two objects.
load_icon(icon_name, size, serial) ==
    [file |-> IF icon_name \in PNG_FILES THEN icon_name ELSE DEFAULT_ICON,
     mode |-> "LA", size |-> size, serial |-> serial]

\* The key lru_cache makes of the positional arguments (icon_name, size)
icon_key(icon_name, size) == [icon_name |-> icon_name, size |-> size]

\* Where the cache, a list of entries from the least to the most recently
\* used, holds the key
cache_find(entries, key) == {i \in 1..Len(entries) : entries[i].key = key}

without_entry(entries, i) == SubSeq(entries, 1, i - 1) \o SubSeq(entries, i + 1, Len(entries))

\* A hit that leaves the entry where it is: first in, first out
lru_hit_in_place(entries, i) ==
    [cache |-> entries, result |-> entries[i].value, hit |-> TRUE]

\* lru_cache, key found: the entry moves to the most recent end and its value
\* is returned; the function is not called
lru_hit(entries, i) ==
    [cache |-> Append(without_entry(entries, i), entries[i]),
     result |-> entries[i].value, hit |-> TRUE]

\* lru_cache, key not found: the function has been called; its value is
\* stored as the most recent entry, in place of the oldest one in a full cache
lru_miss(entries, key, value) ==
    [cache |-> Append(IF Len(entries) >= maxsize THEN Tail(entries) ELSE entries,
                      [key |-> key, value |-> value]),
     result |-> value, hit |-> FALSE]

\* render_icon(icon_name, size), the serial-th call of the process
render_icon(entries, icon_name, size, serial) ==
    IF cache_find(entries, icon_key(icon_name, size)) # {}
    THEN lru_hit(entries, CHOOSE i \in cache_find(entries, icon_key(icon_name, size)) : TRUE)
    ELSE lru_miss(entries, icon_key(icon_name, size), load_icon(icon_name, size, serial))

\* The cache and the log of calls after one more call
logged(drawn, key, r) ==
    [cache |-> r.cache,
     log |-> Append(drawn.log, [key |-> key, hit |-> r.hit, result |-> r.result])]

call_icon(drawn, key) ==
    logged(drawn, key, render_icon(drawn.cache, key.icon_name, key.size, Len(drawn.log) + 1))

\* render_icon called for keys[i], keys[i+1], ... in this order
RECURSIVE call_icons(_, _, _)
call_icons(drawn, keys, i) ==
    IF i > Len(keys) THEN drawn ELSE call_icons(call_icon(drawn, keys[i]), keys, i + 1)

---------------------------------------------------------------------------
(* Text helpers of wttr.py *)

RECURSIVE lstrip(_)
lstrip(s) == IF s # <<>> /\ Head(s) = " " THEN lstrip(Tail(s)) ELSE s

RECURSIVE rstrip(_)
rstrip(s) ==
    IF s # <<>> /\ s[Len(s)] = " " THEN rstrip(SubSeq(s, 1, Len(s) - 1)) ELSE s

\* str.strip()
strip(s) == rstrip(lstrip(s))

\* _first_value on the shape wttr.in sends, a list of {"value": text} objects;
\* an empty list and an object without "value" give the default ""
_first_value(values) ==
    IF values # <<>> /\ "value" \in DOMAIN values[1]
    THEN strip(values[1]["value"])
    ELSE <<>>

\* _first_value(d.get("weatherDesc")): an absent key gives None, so the default
_first_value_get(d, k) == IF k \in DOMAIN d THEN _first_value(d[k]) ELSE <<>>

---------------------------------------------------------------------------
(* Normalization (wttr.py) *)

\* The periods in the order of their target times
PERIOD_DEFINITIONS_by_time ==
    <<[label |-> "Night", target |-> 300],
      [label |-> "Morning", target |-> 900],
      [label |-> "Noon", target |-> 1500],
      [label |-> "Evening", target |-> 2100]>>

PERIOD_DEFINITIONS ==
    <<[label |-> "Morning", target |-> 900],
      [label |-> "Noon", target |-> 1500],
      [label |-> "Evening", target |-> 2100],
      [label |-> "Night", target |-> 300]>>

\* The day's representative hour is the one closest to noon
NOON == 1200

\* payload["weather"][:3]
FORECAST_DAYS == 3

\* float("inf"), the initial best_delta
INF == -1

\* delta < best_delta
Closer(delta, best_delta) == best_delta = INF \/ delta < best_delta

\* values.append(int(...)) inside try: a ValueError skips the entry
appended(r) == IF r.ok THEN <<r.v>> ELSE <<>>

\* _max_hourly: the values list, an absent key counts as "0"
RECURSIVE hourly_values(_, _)
hourly_values(hourly, key) ==
    IF hourly = <<>> THEN <<>>
    ELSE appended(int(Get(Head(hourly), key, <<"0">>))) \o hourly_values(Tail(hourly), key)

greater(a, b) == IF a >= b THEN a ELSE b

\* max(values)
RECURSIVE max(_)
max(values) ==
    IF Len(values) = 1 THEN values[1]
    ELSE greater(values[1], max(Tail(values)))

\* max(values) if values else 0
max_or_zero(values) == IF values # <<>> THEN max(values) ELSE 0

_max_hourly(hourly, key) == max_or_zero(hourly_values(hourly, key))

\* Reads the last day of the list instead of the first
_extract_hourly_int_last_day(weather_days, key) ==
    IF weather_days = <<>> THEN 0
    ELSE _max_hourly(Get(weather_days[Len(weather_days)], "hourly", <<>>), key)

_extract_hourly_int(weather_days, key) ==
    IF weather_days = <<>> THEN 0
    ELSE _max_hourly(Get(weather_days[1], "hourly", <<>>), key)

\* The pair _parse_astronomy returns; sunrise is parsed first
sun_times(sunrise, sunset) ==
    IF ~sunrise.ok THEN sunrise
    ELSE IF ~sunset.ok THEN sunset
    ELSE Ok([sunrise |-> sunrise.v, sunset |-> sunset.v])

_parse_astronomy(entry) ==
    sun_times(parse_time(Get(entry, "sunrise", <<"0", "6", ":", "0", "0", " ", "A", "M">>)),
              parse_time(Get(entry, "sunset", <<"0", "6", ":", "0", "0", " ", "P", "M">>)))

\* One turn of a closest-entry loop: the best entry and its delta after an
\* entry at distance delta
closer_of(entry, delta, best) ==
    IF Closer(delta, best.delta) THEN [entry |-> entry, delta |-> delta] ELSE best

\* One turn of the loop of _representative_hour: an entry whose time is no
\* number is skipped, an absent time counts as "0"
representative_turn(entry, time_value, best) ==
    IF ~time_value.ok THEN best
    ELSE closer_of(entry, Abs(time_value.v - NOON), best)

\* The loop of _representative_hour from entry i on
RECURSIVE representative_loop(_, _, _)
representative_loop(hourly, i, best) ==
    IF i > Len(hourly) THEN best.entry
    ELSE representative_loop(hourly, i + 1,
             representative_turn(hourly[i], int(Get(hourly[i], "time", <<"0">>)), best))

_representative_hour(hourly) ==
    IF hourly = <<>> THEN <<>>
    ELSE representative_loop(hourly, 1, [entry |-> hourly[1], delta |-> INF])

\* The loop of _closest_hour from entry i on: a time that is absent or no
\* number counts as 0
RECURSIVE closest_loop(_, _, _, _)
closest_loop(hourly, target, i, best) ==
    IF i > Len(hourly) THEN best.entry
    ELSE closest_loop(hourly, target, i + 1,
             closer_of(hourly[i], Abs(_safe_int_get(hourly[i], "time", 0) - target), best))

_closest_hour(hourly, target) ==
    IF hourly = <<>> THEN <<>>
    ELSE closest_loop(hourly, target, 1, [entry |-> hourly[1], delta |-> INF])

\* PeriodForecast(...) of the chosen entry
period_forecast(label, entry, temp_c) ==
    IF ~temp_c.ok THEN temp_c
    ELSE Ok([label |-> label,
             temp_c |-> temp_c.v,
             summary |-> _first_value_get(entry, "weatherDesc"),
             icon |-> icon_name_for_code(_safe_int_get(entry, "weatherCode", 0))])

\* int(entry.get("tempC", 0))
temp_c_of(entry) == IF "tempC" \in DOMAIN entry THEN int(entry["tempC"]) ELSE Ok(0)

\* PeriodForecast of the entry _closest_hour chose
period_of_entry(label, entry) == period_forecast(label, entry, temp_c_of(entry))

_build_period_forecast(label, hourly, target) ==
    period_of_entry(label, _closest_hour(hourly, target))

\* A list built in order: the first element that raises aborts it
collected(built) ==
    IF FirstRaise(built).ok
    THEN Ok([i \in 1..Len(built) |-> built[i].v])
    ELSE FirstRaise(built)

\* The list comprehension over PERIOD_DEFINITIONS
periods_of(hourly) ==
    collected([i \in 1..Len(PERIOD_DEFINITIONS) |->
                 _build_period_forecast(PERIOD_DEFINITIONS[i].label, hourly,
                                        PERIOD_DEFINITIONS[i].target)])

\* day.get("astronomy", [{}])[0]
first_astronomy(astronomy) ==
    IF astronomy = <<>> THEN Raise("IndexError") ELSE Ok(astronomy[1])

\* _parse_astronomy(day.get("astronomy", [{}])[0])
sun_of_entry(entry) == IF entry.ok THEN _parse_astronomy(entry.v) ELSE entry

sun_of(day) == sun_of_entry(first_astronomy(Get(day, "astronomy", << <<>> >>)))

\* DailyForecast(...): what raised first, else the record
daily_record(raised, hourly, representative, sun, periods, date, min_c, max_c) ==
    IF ~raised.ok THEN raised
    ELSE Ok([date |-> date.v,
             min_c |-> min_c.v,
             max_c |-> max_c.v,
             summary |-> _first_value_get(representative, "weatherDesc"),
             icon |-> icon_name_for_code(_safe_int_get(representative, "weatherCode", 0)),
             chance_of_rain |-> _max_hourly(hourly, "chanceofrain"),
             sunrise |-> sun.v.sunrise,
             sunset |-> sun.v.sunset,
             periods |-> periods.v])

\* The statements of the loop body in the order they run
daily_parts(hourly, representative, sun, periods, date, min_c, max_c) ==
    daily_record(FirstRaise(<<sun, periods, date, min_c, max_c>>),
                 hourly, representative, sun, periods, date, min_c, max_c)

\* date_parser.parse(day["date"]).date()
date_of(day) == IF "date" \in DOMAIN day THEN parse_date(day["date"]) ELSE Raise("KeyError")

\* The day with its hourly list taken out
daily_of_hourly(day, hourly) ==
    daily_parts(hourly, _representative_hour(hourly), sun_of(day), periods_of(hourly),
                date_of(day), IntItem(day, "mintempC"), IntItem(day, "maxtempC"))

\* The body of the loop over weather_days: one DailyForecast
daily_forecast(day) == daily_of_hourly(day, Get(day, "hourly", <<>>))

\* payload["current_condition"][0]
current_raw_of(payload) ==
    IF "current_condition" \notin DOMAIN payload THEN Raise("KeyError")
    ELSE IF payload["current_condition"] = <<>> THEN Raise("IndexError")
    ELSE Ok(payload["current_condition"][1])

\* payload[:3]
first_days(weather) ==
    SubSeq(weather, 1, IF Len(weather) < FORECAST_DAYS THEN Len(weather) ELSE FORECAST_DAYS)

\* payload.get("weather", [])[:3]: an absent key defaults to no days
weather_days_of_defaulting(payload) ==
    IF "weather" \notin DOMAIN payload THEN Ok(<<>>)
    ELSE Ok(first_days(payload["weather"]))

\* payload["weather"] without the slice
weather_days_of_unsliced(payload) ==
    IF "weather" \notin DOMAIN payload THEN Raise("KeyError")
    ELSE Ok(payload["weather"])

\* payload["weather"][:3]
weather_days_of(payload) ==
    IF "weather" \notin DOMAIN payload THEN Raise("KeyError")
    ELSE Ok(first_days(payload["weather"]))

\* CurrentConditions(...): what raised first, else the record
current_record(raised, current_raw, weather_days, temperature_c, feels_like_c, humidity, wind_kph, wind_direction, pressure_hpa, observation_time, cloud_cover) ==
    IF ~raised.ok THEN raised
    ELSE Ok([temperature_c |-> temperature_c.v,
             feels_like_c |-> feels_like_c.v,
             humidity |-> humidity.v,
             summary |-> _first_value_get(current_raw, "weatherDesc"),
             icon |-> icon_name_for_code(_safe_int_get(current_raw, "weatherCode", 0)),
             wind_kph |-> wind_kph.v,
             wind_direction |-> wind_direction.v,
             pressure_hpa |-> pressure_hpa.v,
             observation_time |-> observation_time.v,
             chance_of_rain |-> _extract_hourly_int(weather_days, "chanceofrain"),
             cloud_cover |-> cloud_cover.v])

\* The keyword arguments in the order they are evaluated
current_parts(current_raw, weather_days, temperature_c, feels_like_c, humidity, wind_kph, wind_direction, pressure_hpa, observation_time, cloud_cover) ==
    current_record(FirstRaise(<<temperature_c, feels_like_c, humidity, wind_kph,
                                wind_direction, pressure_hpa, observation_time,
                                cloud_cover>>),
                   current_raw, weather_days, temperature_c, feels_like_c, humidity,
                   wind_kph, wind_direction, pressure_hpa, observation_time, cloud_cover)

\* _parse_local_datetime(current_raw["localObsDateTime"])
observation_time_of(current_raw) ==
    IF "localObsDateTime" \in DOMAIN current_raw
    THEN _parse_local_datetime(current_raw["localObsDateTime"])
    ELSE Raise("KeyError")

\* current = CurrentConditions(...)
current_conditions(current_raw, weather_days) ==
    current_parts(current_raw, weather_days,
                  IntItem(current_raw, "temp_C"),
                  IntItem(current_raw, "FeelsLikeC"),
                  IntItem(current_raw, "humidity"),
                  IntItem(current_raw, "windspeedKmph"),
                  Item(current_raw, "winddir16Point"),
                  IntItem(current_raw, "pressure"),
                  observation_time_of(current_raw),
                  IntItem(current_raw, "cloudcover"))

\* The forecast loop: the first day that raises aborts the normalization
forecast_of(weather_days) ==
    collected([i \in 1..Len(weather_days) |-> daily_forecast(weather_days[i])])

\* WeatherSnapshot(...)
weather_snapshot(location_name, generated_at, current, forecast) ==
    IF ~current.ok THEN current
    ELSE IF ~forecast.ok THEN forecast
    ELSE Ok([location_name |-> location_name,
             generated_at |-> generated_at,
             current |-> current.v,
             forecast |-> forecast.v])

\* The statements of _parse_payload after its first two
normalized(location_name, generated_at, current_raw, weather_days) ==
    IF ~current_raw.ok THEN current_raw
    ELSE IF ~weather_days.ok THEN weather_days
    ELSE weather_snapshot(location_name, generated_at,
                          current_conditions(current_raw.v, weather_days.v),
                          forecast_of(weather_days.v))

\* WttrClient._parse_payload; generated_at is datetime.utcnow()
_parse_payload(location_name, payload, generated_at) ==
    normalized(location_name, generated_at, current_raw_of(payload), weather_days_of(payload))

---------------------------------------------------------------------------
(* The payloads the model feeds to the program.  Each family starts from   *)
(* the shape wttr.in sends and varies one part of it: the top-level keys,  *)
(* the current observation, one field of one day of the weather list, or  *)
(* the hourly list of the last day of the list.                            *)

\* Longest weather list
MaxDays == 4

\* Longest hourly list of the varied day
MaxHours == 2

Without(d, k) == [x \in DOMAIN d \ {k} |-> d[x]]
With(d, k, v) == [x \in DOMAIN d \cup {k} |-> IF x = k THEN v ELSE d[x]]

\* The field k of d absent, or set to one of the texts
Varied(d, k, texts) == {Without(d, k)} \cup {With(d, k, t) : t \in texts}

NotANumber == <<"n", "/", "a">>

BaseHour ==
    [time |-> <<"1", "2", "0", "0">>,
     tempC |-> <<"5">>,
     chanceofrain |-> <<"4", "5">>,
     weatherCode |-> <<"1", "1", "6">>,
     weatherDesc |-> <<[value |-> <<"F", "o", "g", " ">>]>>]

Hours ==
    Varied(BaseHour, "chanceofrain", {<<"4", "5">>, <<"8", "0">>, NotANumber})
    \cup Varied(BaseHour, "time",
                {<<"0">>, <<"3", "0", "0">>, <<"9", "0", "0">>, <<"1", "5", "0", "0">>,
                 <<"2", "1", "0", "0">>, NotANumber})
    \cup Varied(BaseHour, "tempC", {NotANumber})
    \cup Varied(BaseHour, "weatherCode", {<<"9", "9", "9">>, NotANumber})

Hourlies == UNION {[1..n -> Hours] : n \in 0..MaxHours}

Digits == <<"0", "1", "2", "3", "4", "5", "6", "7", "8", "9">>

\* The date text of the i-th day, "2024-01-1<i>"
DateText(i) == <<"2", "0", "2", "4", "-", "0", "1", "-", "1", Digits[i + 1]>>

BaseAstronomy ==
    [sunrise |-> <<"0", "8", ":", "3", "0", " ", "A", "M">>,
     sunset |-> <<"0", "5", ":", "4", "5", " ", "P", "M">>]

BaseDay(i) ==
    [date |-> DateText(i),
     mintempC |-> <<"-", "3">>,
     maxtempC |-> <<"4">>,
     astronomy |-> <<BaseAstronomy>>,
     hourly |-> <<With(BaseHour, "time", <<"9", "0", "0">>),
                  With(BaseHour, "chanceofrain", <<"8", "0">>)>>]

\* The i-th day with one of its own fields varied
FieldDays(i) ==
    {Without(BaseDay(i), "hourly")}
    \cup Varied(BaseDay(i), "mintempC", {NotANumber})
    \cup Varied(BaseDay(i), "maxtempC", {NotANumber})
    \cup Varied(BaseDay(i), "date", {<<"s", "o", "o", "n">>})
    \cup Varied(BaseDay(i), "astronomy",
                {<<>>, << <<>> >>,
                 <<Without(BaseAstronomy, "sunrise")>>,
                 <<Without(BaseAstronomy, "sunset")>>,
                 <<With(BaseAstronomy, "sunrise", <<"d", "a", "w", "n">>)>>})

BaseCurrent ==
    [temp_C |-> <<"2">>,
     FeelsLikeC |-> <<"-", "1">>,
     humidity |-> <<"7", "0">>,
     weatherDesc |-> <<[value |-> <<"S", "u", "n", "n", "y">>]>>,
     weatherCode |-> <<"1", "1", "3">>,
     windspeedKmph |-> <<"9">>,
     winddir16Point |-> <<"N", "W">>,
     pressure |-> <<"1", "0", "1", "3">>,
     localObsDateTime |-> DateText(1) \o <<" ">> \o <<"0", "9", ":", "3", "0", " ", "A", "M">>,
     cloudcover |-> <<"2", "5">>]

\* The numeric fields of the current observation that the code hands to int()
CURRENT_INT_FIELDS ==
    {"temp_C", "FeelsLikeC", "humidity", "windspeedKmph", "pressure", "cloudcover"}

\* A stray chanceofrain in the current observation, which the code never reads
StrayRainCurrent == With(BaseCurrent, "chanceofrain", <<"9", "9">>)

Currents ==
    {BaseCurrent, StrayRainCurrent}
    \cup UNION {Varied(BaseCurrent, k, {NotANumber}) : k \in CURRENT_INT_FIELDS}
    \cup Varied(BaseCurrent, "weatherCode", {NotANumber})
    \cup Varied(BaseCurrent, "localObsDateTime", {<<"n", "o", "w">>})
    \cup {Without(BaseCurrent, "winddir16Point"), Without(BaseCurrent, "weatherDesc")}

BaseWeather(n) == [i \in 1..n |-> BaseDay(i)]

\* The payload of an observation and a weather list
Payload(current, weather) == [current_condition |-> <<current>>, weather |-> weather]

\* Payloads without a usable top-level structure
BrokenPayloads ==
    {[current_condition |-> <<>>, weather |-> BaseWeather(1)],
     [current_condition |-> <<BaseCurrent>>],
     [weather |-> BaseWeather(1)],
     <<>>}

---------------------------------------------------------------------------
(* Strings that are taken apart (paths, object keys) are sequences of      *)
(* tokens, "/" being a token of its own.                                   *)

RECURSIVE lstrip_slash(_)
lstrip_slash(s) == IF s # <<>> /\ Head(s) = "/" THEN lstrip_slash(Tail(s)) ELSE s

RECURSIVE rstrip_slash(_)
rstrip_slash(s) ==
    IF s # <<>> /\ s[Len(s)] = "/" THEN rstrip_slash(SubSeq(s, 1, Len(s) - 1)) ELSE s

\* str.strip("/")
strip_slash(s) == rstrip_slash(lstrip_slash(s))

\* Path.name: what follows the last "/"
RECURSIVE path_name(_)
path_name(path) ==
    IF path = <<>> THEN <<>>
    ELSE IF path[Len(path)] = "/" THEN <<>>
    ELSE path_name(SubSeq(path, 1, Len(path) - 1)) \o <<path[Len(path)]>>

---------------------------------------------------------------------------
(* Uploader (uploader.py) *)

\* R2Uploader.__init__ before the boto3 client is made: the settings that
\* _get_env leaves unset are ""
R2Uploader_init_unchecked(config) ==
    IF ~config.enabled THEN Raise("ValueError")
    ELSE Ok([bucket |-> config.bucket, key_prefix |-> strip_slash(config.key_prefix)])

R2Uploader_init(config) ==
    IF ~config.enabled THEN Raise("ValueError")
    ELSE IF config.access_key_id = "" \/ config.secret_access_key = "" \/ config.bucket = ""
    THEN Raise("RuntimeError")
    ELSE Ok([bucket |-> config.bucket, key_prefix |-> strip_slash(config.key_prefix)])

\* The key R2Uploader.upload stores under; object_key is never None here
upload_key(uploader, object_key) ==
    IF uploader.key_prefix # <<>>
    THEN uploader.key_prefix \o <<"/">> \o object_key
    ELSE object_key

---------------------------------------------------------------------------
(* The render command (cli.py) and its configuration (config.py) *)

DEFAULT_NAME == <<"kindle-weather.png">>

\* load_config: output = Path("output")
OUTPUT_PATH == <<"output">>

_default_output_path == OUTPUT_PATH \o <<"/">> \o DEFAULT_NAME

_default_object_key == DEFAULT_NAME

\* --output: <<>> when the option is not given
OutputOptions == {<<>>, <<"cards", "/", "today.png">>}

\* --key: <<>> when the option is not given (or given empty)
KeyOptions == {<<>>, <<"k3w.png">>}

\* --upload / --no-upload / neither
UploadOptions == {"--upload", "--no-upload", "unset"}

Options ==
    [offline : BOOLEAN, output : OutputOptions, upload : UploadOptions, key : KeyOptions]

\* AppConfig as load_config fills it: the fields the model reads
AppConfig(r2, image_width, image_height, grayscale) ==
    [r2 |-> r2, output_path |-> OUTPUT_PATH, image_width |-> image_width,
     image_height |-> image_height, grayscale |-> grayscale]

\* R2_KEY_PREFIX: unset gives the default "screensaver"
KeyPrefixes == {<<"screensaver">>, <<"/", "screensaver", "/">>, <<"/">>}

\* The R2 settings of the environment; at most one credential is unset
R2Configs ==
    {[enabled |-> e, access_key_id |-> a, secret_access_key |-> k, bucket |-> b,
      key_prefix |-> x] :
        e \in BOOLEAN, a \in {"", "AKID"}, k \in {"", "SECRET"}, b \in {"", "kindle"},
        x \in KeyPrefixes}

R2ConfigsUsed ==
    {c \in R2Configs :
        Cardinality({n \in {"access_key_id", "secret_access_key", "bucket"} : c[n] = ""}) <= 1}

\* should_upload
should_upload(upload, config) ==
    IF upload # "unset" THEN upload = "--upload" ELSE config.enabled

---------------------------------------------------------------------------
(* The weather source and the cache file *)

\* The cache file does not exist
NoFile == [kind |-> "absent"]

\* A response body: a JSON document, or text that is no JSON (an error page)
JsonBody(doc) == [kind |-> "json", doc |-> doc]
HtmlBody == [kind |-> "html"]

\* json.loads / response.json()
json_loads(text) ==
    IF text.kind = "json" THEN Ok(text.doc) ELSE Raise("JSONDecodeError")

\* The documents the weather source sends in the command model: two that
\* normalize and differ, and one without the weather key
NetPayloads ==
    {Payload(BaseCurrent, BaseWeather(1)),
     Payload(StrayRainCurrent, <<>>),
     [current_condition |-> <<BaseCurrent>>]}

\* requests.get: a connection error or timeout, a non-2xx status, or a 2xx
\* answer with a body
Responses ==
    {[kind |-> "ConnectionError"], [kind |-> "status", code |-> 503]}
    \cup {[kind |-> "ok", body |-> b] : b \in {HtmlBody} \cup {JsonBody(p) : p \in NetPayloads}}

\* The except branch of _download_payload: the cache file as it is now
fallback(file) ==
    IF file # NoFile THEN json_loads(file) ELSE Raise("RuntimeError")

\* _download_payload online: the cache file afterwards and the result
download_online(file, response) ==
    IF response.kind # "ok" THEN [cache |-> file, result |-> fallback(file)]
    ELSE IF json_loads(response.body).ok
    THEN [cache |-> response.body, result |-> json_loads(response.body)]
    ELSE [cache |-> response.body, result |-> fallback(response.body)]

\* _download_payload with use_cache_only
download_offline(file) ==
    IF file # NoFile THEN json_loads(file)
    ELSE Raise("RuntimeError")

---------------------------------------------------------------------------
(* The renderer (renderer.py).  An image is its mode and size: text and    *)
(* pasted icons change pixels only.  What drawing leaves behind outside    *)
(* the image is the render_icon calls it makes.                            *)

\* Renderer.__init__
Renderer_init == [padding |-> 32, gutter |-> 12, current_icon_size |-> 150]

FORECAST_PERIOD_LABELS == <<"Morning", "Noon", "Evening", "Night">>

\* a // b
floordiv(a, b) == IF b = 0 THEN Raise("ZeroDivisionError") ELSE Ok(a \div b)

\* col_width of _draw_forecast, in whole pixels:
\*   available_width = (image_width - 2 * padding - label_width) * 0.75
\*   (available_width - (col_count - 1) * gutter) // col_count
\* with both sides of the division multiplied by 4
col_width(image_width, col_count) ==
    floordiv(3 * (image_width - 2 * Renderer_init.padding - 80)
               - 4 * (col_count - 1) * Renderer_init.gutter,
             4 * col_count)

\* period_maps[idx].get(label, PeriodForecast(..., icon="skc")).icon: of the
\* periods of the day with this label the dict keeps the last
labelled(periods, label) == {j \in 1..Len(periods) : periods[j].label = label}

period_icon(periods, label) ==
    IF labelled(periods, label) = {} THEN "skc"
    ELSE periods[CHOOSE j \in labelled(periods, label) :
                    \A k \in labelled(periods, label) : k <= j].icon

\* list(forecasts)[:3]
first_three(forecasts) ==
    SubSeq(forecasts, 1, IF Len(forecasts) < 3 THEN Len(forecasts) ELSE 3)

\* The _paste_icon calls of _draw_forecast: for each label, for each column
forecast_icons(days) ==
    [k \in 1..(Len(FORECAST_PERIOD_LABELS) * Len(days)) |->
        icon_key(period_icon(days[((k - 1) % Len(days)) + 1].periods,
                             FORECAST_PERIOD_LABELS[((k - 1) \div Len(days)) + 1]),
                 26)]

\* _draw_forecast without the early return for no days
_draw_forecast_unguarded(image_width, days) ==
    IF ~col_width(image_width, Len(days)).ok THEN col_width(image_width, Len(days))
    ELSE Ok(forecast_icons(days))

\* _draw_forecast: the icons it pastes, or what it raises
_draw_forecast(image_width, days) ==
    IF days = <<>> THEN Ok(<<>>)
    ELSE IF ~col_width(image_width, Len(days)).ok THEN col_width(image_width, Len(days))
    ELSE Ok(forecast_icons(days))

\* Image.new(mode, size, color=255) ... image.save(output_path, format="PNG")
saved_image(config, output_path) ==
    [saved |-> TRUE, path |-> output_path, returned |-> output_path,
     mode |-> IF config.grayscale THEN "L" ELSE "RGB",
     width |-> config.image_width, height |-> config.image_height]

\* What render leaves behind, given what _draw_forecast did: the icon of
\* the current conditions is pasted first
rendered(config, current_icon, forecast_drawn, output_path, drawn) ==
    IF forecast_drawn.ok
    THEN [ok |-> TRUE, image |-> saved_image(config, output_path),
          drawn |-> call_icons(drawn, <<current_icon>> \o forecast_drawn.v, 1)]
    ELSE [ok |-> FALSE, err |-> forecast_drawn.err,
          drawn |-> call_icon(drawn, current_icon)]

\* Renderer.render(snapshot, output_path=output_path)
render(config, snap, output_path, drawn) ==
    rendered(config,
             icon_key(snap.current.icon, Renderer_init.current_icon_size),
             _draw_forecast(config.image_width, first_three(snap.forecast)),
             output_path, drawn)

---------------------------------------------------------------------------
(* State *)

VARIABLES
    pc,         \* where the running operation stands
    cache,      \* the content of <cache_dir>/wttr.json
    payload,    \* what _download_payload returned or raised
    snapshot,   \* what fetch or _parse_payload returned or raised
    opts,       \* the options of the running render command
    config,     \* what load_config returned or raised
    fetched,    \* the fetch of this run: its mode, the response, the cache before
    requests,   \* GET requests to the weather source in this run
    written,    \* the image files this run has written
    echoed,     \* the lines this run has echoed
    uploads,    \* the upload_file calls of this run
    error,      \* where this run raised
    lastGood,   \* the payload of the last download that succeeded
    image,      \* what Renderer.render saved and returned
    icon_cache, \* the lru_cache of render_icon, least recently used first
    icon_log,   \* the render_icon calls of this process
    code,       \* the argument of an icon_name_for_code call
    icon        \* what that call returned

\* The state of the drawing side: the renderer and the icon helpers
iconVars == <<image, icon_cache, icon_log, code, icon>>

vars == <<pc, cache, payload, snapshot, opts, config, fetched, requests, written,
          echoed, uploads, error, lastGood, image, icon_cache, icon_log, code, icon>>

\* No result yet
Pending == Raise("<pending>")

NoFetch == [mode |-> "none"]

NoOptions == [offline |-> FALSE, output |-> <<>>, upload |-> "unset", key |-> <<>>]

LOCATION_NAME == "Your Location"

\* Nothing rendered yet
NoImage == [saved |-> FALSE]

\* No icon_name_for_code call yet
NoIcon == "<pending>"

\* A process that has not run anything yet
Fresh ==
    /\ payload = Pending
    /\ snapshot = Pending
    /\ config = Pending
    /\ fetched = NoFetch
    /\ requests = 0
    /\ written = {}
    /\ echoed = <<>>
    /\ uploads = <<>>
    /\ error = "none"
    /\ image = NoImage
    /\ icon_cache = <<>>
    /\ icon_log = <<>>
    /\ icon = NoIcon

---------------------------------------------------------------------------
(* The render command, run again and again over the same cache directory *)

Init ==
    /\ pc = "start"
    /\ cache = NoFile
    /\ lastGood = Pending
    /\ opts = NoOptions
    /\ code = NoCode
    /\ Fresh

\* The command line is parsed
Start ==
    /\ pc = "start"
    /\ opts' \in Options
    /\ pc' = "load_config"
    /\ UNCHANGED <<cache, payload, snapshot, config, fetched, requests, written,
                   echoed, uploads, error, lastGood>>
    /\ UNCHANGED iconVars

\* config = load_config(): LATITUDE or LONGITUDE unset raises
LoadConfig ==
    /\ pc = "load_config"
    /\ \/ /\ config' = Raise("RuntimeError")
          /\ pc' = "failed"
          /\ error' = "load_config"
       \/ /\ \E r2 \in R2ConfigsUsed : config' = Ok(AppConfig(r2, 600, 800, TRUE))
          /\ pc' = "fetch"
          /\ error' = error
    /\ UNCHANGED <<cache, payload, snapshot, opts, fetched, requests, written,
                   echoed, uploads, lastGood>>
    /\ UNCHANGED iconVars

\* What fetch leaves behind once _download_payload has returned or raised
Fetched(result) ==
    /\ payload' = result
    /\ snapshot' = IF result.ok
                   THEN _parse_payload(LOCATION_NAME, result.v, "utcnow")
                   ELSE Pending
    /\ pc' = IF result.ok /\ snapshot'.ok THEN "render" ELSE "failed"
    /\ error' = IF ~result.ok THEN "_download_payload"
                ELSE IF ~snapshot'.ok THEN "_parse_payload"
                ELSE error

\* snapshot = client.fetch(use_cache_only=True)
FetchOffline ==
    /\ pc = "fetch"
    /\ opts.offline
    /\ fetched' = [mode |-> "offline", cache_before |-> cache]
    /\ Fetched(download_offline(cache))
    /\ UNCHANGED <<cache, opts, config, requests, written, echoed, uploads, lastGood>>
    /\ UNCHANGED iconVars

\* snapshot = client.fetch(use_cache_only=False)
FetchOnline ==
    /\ pc = "fetch"
    /\ ~opts.offline
    /\ \E response \in Responses :
          /\ fetched' = [mode |-> "online", response |-> response, cache_before |-> cache,
                         good_before |-> lastGood]
          /\ cache' = download_online(cache, response).cache
          /\ Fetched(download_online(cache, response).result)
          /\ lastGood' = IF response.kind = "ok" /\ json_loads(response.body).ok
                         THEN json_loads(response.body)
                         ELSE lastGood
    /\ requests' = requests + 1
    /\ UNCHANGED <<opts, config, written, echoed, uploads>>
    /\ UNCHANGED iconVars

\* target = output or _default_output_path(...)
target == IF opts.output # <<>> THEN opts.output ELSE _default_output_path

\* rendered_path = renderer.render(snapshot, output_path=target)
Rendering(r) ==
    /\ icon_cache' = r.drawn.cache
    /\ icon_log' = r.drawn.log
    /\ IF r.ok
       THEN /\ image' = r.image
            /\ written' = written \cup {r.image.path}
            /\ pc' = "echo"
            /\ error' = error
       ELSE /\ image' = image
            /\ written' = written
            /\ pc' = "failed"
            /\ error' = "render"

Render ==
    /\ pc = "render"
    /\ Rendering(render(config.v, snapshot.v, target, [cache |-> icon_cache, log |-> icon_log]))
    /\ UNCHANGED <<cache, payload, snapshot, opts, config, fetched, requests, echoed,
                   uploads, lastGood, code, icon>>

\* typer.echo(f"Saved {rendered_path}")
EchoSaved ==
    /\ pc = "echo"
    /\ echoed' = Append(echoed, <<"Saved", target>>)
    /\ pc' = "upload"
    /\ UNCHANGED <<cache, payload, snapshot, opts, config, fetched, requests, written,
                   uploads, error, lastGood>>
    /\ UNCHANGED iconVars

\* should_upload is false: the command is over
NoUpload ==
    /\ pc = "upload"
    /\ ~should_upload(opts.upload, config.v.r2)
    /\ pc' = "done"
    /\ UNCHANGED <<cache, payload, snapshot, opts, config, fetched, requests, written,
                   echoed, uploads, error, lastGood>>
    /\ UNCHANGED iconVars

\* uploader = R2Uploader(config.r2)
MakeUploader ==
    /\ pc = "upload"
    /\ should_upload(opts.upload, config.v.r2)
    /\ IF R2Uploader_init(config.v.r2).ok
       THEN pc' = "upload_file" /\ error' = error
       ELSE pc' = "failed" /\ error' = "R2Uploader"
    /\ UNCHANGED <<cache, payload, snapshot, opts, config, fetched, requests, written,
                   echoed, uploads, lastGood>>
    /\ UNCHANGED iconVars

\* object_key = key or _default_object_key(...)
object_key == IF opts.key # <<>> THEN opts.key ELSE _default_object_key

\* stored_key = uploader.upload(rendered_path, object_key=object_key), then
\* the echo of "Uploaded to ..."; client.upload_file may raise
UploadFile ==
    /\ pc = "upload_file"
    /\ LET uploader == R2Uploader_init(config.v.r2).v
           key == upload_key(uploader, object_key)
       IN /\ uploads' = Append(uploads, [file |-> target, bucket |-> uploader.bucket,
                                         key |-> key])
          /\ \/ /\ pc' = "done"
                /\ echoed' = Append(echoed, <<"Uploaded", key>>)
                /\ error' = error
             \/ /\ pc' = "failed"
                /\ echoed' = echoed
                /\ error' = "upload_file"
    /\ UNCHANGED <<cache, payload, snapshot, opts, config, fetched, requests, written,
                   lastGood>>
    /\ UNCHANGED iconVars

\* The process exits; the next run of the command finds the cache file as
\* this one left it
Exit ==
    /\ pc \in {"done", "failed"}
    /\ pc' = "start"
    /\ opts' = NoOptions
    /\ payload' = Pending
    /\ snapshot' = Pending
    /\ config' = Pending
    /\ fetched' = NoFetch
    /\ requests' = 0
    /\ written' = {}
    /\ echoed' = <<>>
    /\ uploads' = <<>>
    /\ error' = "none"
    /\ image' = NoImage
    /\ icon_cache' = <<>>
    /\ icon_log' = <<>>
    /\ UNCHANGED <<cache, lastGood, code, icon>>

Next ==
    \/ Start
    \/ LoadConfig
    \/ FetchOffline
    \/ FetchOnline
    \/ Render
    \/ EchoSaved
    \/ NoUpload
    \/ MakeUploader
    \/ UploadFile
    \/ Exit

Spec == Init /\ [][Next]_vars

---------------------------------------------------------------------------
(* Normalization alone: _parse_payload applied to each payload, as the     *)
(* test suite calls it                                                     *)

InitParse ==
    /\ pc = "parse"
    /\ cache = NoFile
    /\ lastGood = Pending
    /\ opts = NoOptions
    /\ config = Pending
    /\ fetched = NoFetch
    /\ requests = 0
    /\ written = {}
    /\ echoed = <<>>
    /\ uploads = <<>>
    /\ error = "none"
    /\ snapshot = Pending
    /\ image = NoImage
    /\ icon_cache = <<>>
    /\ icon_log = <<>>
    /\ code = NoCode
    /\ icon = NoIcon
    /\ \/ \E p \in BrokenPayloads : payload = Ok(p)
       \/ \E c \in Currents, n \in 0..MaxDays : payload = Ok(Payload(c, BaseWeather(n)))
       \/ \E n \in 1..MaxDays, k \in 1..MaxDays :
             /\ k <= n
             /\ \E d \in FieldDays(k) :
                   payload = Ok(Payload(BaseCurrent, [BaseWeather(n) EXCEPT ![k] = d]))
       \/ \E n \in 1..MaxDays, h \in Hourlies :
             payload = Ok(Payload(BaseCurrent, [BaseWeather(n) EXCEPT ![n] = With(BaseDay(n), "hourly", h)]))

\* client._parse_payload(payload)
ParsePayload ==
    /\ pc = "parse"
    /\ pc' = "parsed"
    /\ snapshot' = _parse_payload(LOCATION_NAME, payload.v, "utcnow")
    /\ UNCHANGED <<cache, payload, opts, config, fetched, requests, written, echoed,
                   uploads, error, lastGood>>
    /\ UNCHANGED iconVars

NextParse == ParsePayload

SpecParse == InitParse /\ [][NextParse]_vars

---------------------------------------------------------------------------
(* icon_name_for_code alone, applied to each code *)

MaxCode == 400

\* None, and every int from -1 to MaxCode: the codes of the table, zero and
\* the numbers between and around them
Codes == {NoCode} \cup {Code(n) : n \in -1..MaxCode}

InitCode ==
    /\ pc = "icon"
    /\ cache = NoFile
    /\ lastGood = Pending
    /\ opts = NoOptions
    /\ Fresh
    /\ code \in Codes

\* icon_name_for_code(code)
ResolveIcon ==
    /\ pc = "icon"
    /\ pc' = "icon_done"
    /\ icon' = icon_name_for_optional_code(code)
    /\ UNCHANGED <<cache, payload, snapshot, opts, config, fetched, requests, written,
                   echoed, uploads, error, lastGood, image, icon_cache, icon_log, code>>

SpecCode == InitCode /\ [][ResolveIcon]_vars

---------------------------------------------------------------------------
(* Renderer.render alone, applied to snapshots with any number of forecast *)
(* days, as the test suite calls it                                        *)

MaxForecast == 4

\* The snapshot of the base payload with FORECAST_DAYS days
BaseSnapshot ==
    _parse_payload(LOCATION_NAME, Payload(BaseCurrent, BaseWeather(FORECAST_DAYS)), "utcnow").v

\* The periods a DailyForecast may hold: the four of normalization, none, or
\* Morning twice and nothing else
PeriodLists(periods) ==
    {periods, <<>>, <<periods[1], [periods[1] EXCEPT !.icon = "sn"]>>}

\* n forecast days, the days of BaseSnapshot over and over
Forecasts ==
    UNION {{[i \in 1..n |-> [BaseSnapshot.forecast[((i - 1) % FORECAST_DAYS) + 1]
                                EXCEPT !.periods = periods]] :
               periods \in PeriodLists(BaseSnapshot.forecast[1].periods)} :
             n \in 0..MaxForecast}

\* The R2Config of the test: uploading off, nothing set
R2Off ==
    [enabled |-> FALSE, access_key_id |-> "", secret_access_key |-> "", bucket |-> "",
     key_prefix |-> <<>>]

\* 600x800 grayscale as load_config sets it, and two other canvases
RenderConfigs ==
    {AppConfig(R2Off, 600, 800, TRUE), AppConfig(R2Off, 600, 800, FALSE),
     AppConfig(R2Off, 758, 1024, TRUE)}

InitRender ==
    /\ pc = "render"
    /\ cache = NoFile
    /\ lastGood = Pending
    /\ payload = Pending
    /\ fetched = NoFetch
    /\ requests = 0
    /\ written = {}
    /\ echoed = <<>>
    /\ uploads = <<>>
    /\ error = "none"
    /\ image = NoImage
    /\ icon_cache = <<>>
    /\ icon_log = <<>>
    /\ code = NoCode
    /\ icon = NoIcon
    /\ \E output \in OutputOptions : opts = [NoOptions EXCEPT !.output = output]
    /\ \E c \in RenderConfigs : config = Ok(c)
    /\ \E current_icon \in IconIds, forecast \in Forecasts :
          snapshot = Ok([BaseSnapshot EXCEPT !.current.icon = current_icon,
                                             !.forecast = forecast])

SpecRender == InitRender /\ [][Render]_vars

---------------------------------------------------------------------------
(* render_icon alone: two calls in a process that has drawn any number of  *)
(* distinct icons before                                                   *)

MaxNew == 2

\* The icon names passed: the 14 ids and a name that has no PNG file
IconNames == ICON_ORDER \o <<"na">>

\* The k-th (icon_name, size) pair: every name at size 1, then at size 2, ...
Pair(k) ==
    icon_key(IconNames[((k - 1) % Len(IconNames)) + 1], ((k - 1) \div Len(IconNames)) + 1)

NothingDrawn == [cache |-> <<>>, log |-> <<>>]

\* The image the k-th call loads when it is the first call with Pair(k)
Loaded(k) == load_icon(Pair(k).icon_name, Pair(k).size, k)

\* The process after render_icon was called once for each of Pair(1..n),
\* n <= maxsize: n misses, nothing dropped
Warm(n) ==
    [cache |-> [k \in 1..n |-> [key |-> Pair(k), value |-> Loaded(k)]],
     log |-> [k \in 1..n |-> [key |-> Pair(k), hit |-> FALSE, result |-> Loaded(k)]]]

KeysOf(entries) == {entries[i].key : i \in 1..Len(entries)}

\* The pairs a call is made with: the least recently used, the next, the
\* middle and the most recently used of the cache, the pairs called before
\* that the cache has dropped, and the next MaxNew pairs never called
CallKeys(entries, log) ==
    {entries[i].key : i \in {1, 2, (Len(entries) + 1) \div 2, Len(entries)} \cap 1..Len(entries)}
    \cup (KeysOf(log) \ KeysOf(entries))
    \cup {Pair(Cardinality(KeysOf(log)) + k) : k \in 1..MaxNew}

InitIcons ==
    /\ pc = "icons"
    /\ cache = NoFile
    /\ lastGood = Pending
    /\ opts = NoOptions
    /\ payload = Pending
    /\ snapshot = Pending
    /\ config = Pending
    /\ fetched = NoFetch
    /\ requests = 0
    /\ written = {}
    /\ echoed = <<>>
    /\ uploads = <<>>
    /\ error = "none"
    /\ image = NoImage
    /\ code = NoCode
    /\ icon = NoIcon
    /\ \E n \in 0..maxsize :
          /\ n = 0 \/ Warm(n) = call_icon(Warm(n - 1), Pair(n))
          /\ icon_cache = Warm(n).cache
          /\ icon_log = Warm(n).log

Called(drawn) ==
    /\ icon_cache' = drawn.cache
    /\ icon_log' = drawn.log

\* render_icon(icon_name, size), the first and the second call examined
CallIcon ==
    /\ pc \in {"icons", "icons_again"}
    /\ pc' = IF pc = "icons" THEN "icons_again" ELSE "icons_done"
    /\ \E key \in CallKeys(icon_cache, icon_log) :
          Called(call_icon([cache |-> icon_cache, log |-> icon_log], key))
    /\ UNCHANGED <<cache, payload, snapshot, opts, config, fetched, requests, written,
                   echoed, uploads, error, lastGood, image, code, icon>>

SpecIcons == InitIcons /\ [][CallIcon]_vars

---------------------------------------------------------------------------
(* Claims about normalization, checked under SpecParse *)

Parsed == pc = "parsed"

\* The base payload with exactly one of the numeric fields temp_C, FeelsLikeC,
\* humidity, mintempC, maxtempC or an hourly tempC absent or not a number
SingleFieldDefects ==
    UNION {{Payload(c, BaseWeather(n)) : c \in Varied(BaseCurrent, k, {NotANumber}) \ {BaseCurrent}, n \in 0..MaxDays} :
              k \in {"temp_C", "FeelsLikeC", "humidity"}}
    \cup UNION {{Payload(BaseCurrent, [BaseWeather(n) EXCEPT ![1] = d]) :
                    d \in Varied(BaseDay(1), k, {NotANumber}) \ {BaseDay(1)}, n \in 1..MaxDays} :
                  k \in {"mintempC", "maxtempC"}}
    \cup {Payload(BaseCurrent, <<With(BaseDay(1), "hourly", <<h>>)>>) :
            h \in Varied(BaseHour, "tempC", {NotANumber}) \ {BaseHour}}

\* C3 (as claimed): for a payload with both top-level keys, one malformed or
\* missing numeric field never aborts normalization: a snapshot is returned.
C3_SingleFieldNeverAborts ==
    (Parsed /\ payload.v \in SingleFieldDefects) => snapshot.ok

\* C4: a payload without the top-level key current_condition or without the
\* top-level key weather makes normalization raise (a KeyError that reaches
\* the caller); no snapshot is produced.
C4_MissingTopLevelKeyRaises ==
    (Parsed /\ ~({"current_condition", "weather"} \subseteq DOMAIN payload.v))
        => (~snapshot.ok /\ snapshot.err = "KeyError")

C4_Witness ==
    /\ Parsed
    /\ "current_condition" \in DOMAIN payload.v
    /\ "weather" \notin DOMAIN payload.v
    /\ ~snapshot.ok

\* The chanceofrain values of an hourly list that are numbers
RainValues(hourly) ==
    {int(hourly[i]["chanceofrain"]).v :
        i \in {j \in 1..Len(hourly) : /\ "chanceofrain" \in DOMAIN hourly[j]
                                      /\ int(hourly[j]["chanceofrain"]).ok}}

\* The hourly list of weather[0], empty when there is no day or no list
TodayHourly(p) ==
    IF p["weather"] = <<>> THEN <<>> ELSE Get(p["weather"][1], "hourly", <<>>)

\* C8: the current chance_of_rain is the greatest chanceofrain among the
\* hourly entries of weather[0], 0 when there is none, whatever the current
\* observation holds; with a non-empty forecast it is forecast[0]'s.
C8_CurrentRainIsTodayMax ==
    (Parsed /\ snapshot.ok) =>
        LET rain == snapshot.v.current.chance_of_rain
            values == RainValues(TodayHourly(payload.v))
        IN /\ values = {} => rain = 0
           /\ values # {} => (rain \in values /\ \A x \in values : x <= rain)
           /\ snapshot.v.forecast # <<>> => rain = snapshot.v.forecast[1].chance_of_rain

C8_Witness ==
    /\ Parsed
    /\ snapshot.ok
    /\ "chanceofrain" \in DOMAIN payload.v["current_condition"][1]
    /\ Len(payload.v["weather"]) > 1
    /\ snapshot.v.current.chance_of_rain = 80
    /\ snapshot.v.forecast[1].chance_of_rain = 80

\* C9: a weather list of n days gives a forecast of min(n, 3) entries, the
\* i-th built from the i-th source day.
C9_ForecastLength ==
    (Parsed /\ snapshot.ok) =>
        LET weather == payload.v["weather"]
            forecast == snapshot.v.forecast
        IN /\ Len(forecast) = (IF Len(weather) < 3 THEN Len(weather) ELSE 3)
           /\ \A i \in 1..Len(forecast) :
                 /\ forecast[i].date = parse_date(weather[i]["date"]).v
                 /\ forecast[i].date.day = 10 + i

C9_Witness ==
    /\ Parsed
    /\ snapshot.ok
    /\ Len(payload.v["weather"]) = 4
    /\ Len(snapshot.v.forecast) = 3

\* C10: every DailyForecast of a returned snapshot has exactly 4 periods,
\* labelled Morning, Noon, Evening, Night in this order.
C10_FourPeriods ==
    (Parsed /\ snapshot.ok) =>
        \A i \in 1..Len(snapshot.v.forecast) :
            /\ Len(snapshot.v.forecast[i].periods) = 4
            /\ [j \in 1..4 |-> snapshot.v.forecast[i].periods[j].label]
                 = <<"Morning", "Noon", "Evening", "Night">>

C10_Witness ==
    /\ Parsed
    /\ snapshot.ok
    /\ Len(snapshot.v.forecast) > 1
    /\ "hourly" \notin DOMAIN payload.v["weather"][2]
    /\ Len(snapshot.v.forecast[2].periods) = 4

\* The weatherCode texts of the payload: of the current observation and of
\* every hourly entry of every day
WeatherCodes(p) ==
    {c["weatherCode"] : c \in {d \in {p["current_condition"][1]} : "weatherCode" \in DOMAIN d}}
    \cup UNION {{Get(d, "hourly", <<>>)[j]["weatherCode"] :
                    j \in {k \in 1..Len(Get(d, "hourly", <<>>)) : "weatherCode" \in DOMAIN Get(d, "hourly", <<>>)[k]}} :
                  d \in {p["weather"][i] : i \in 1..Len(p["weather"])}}

\* C12: in every snapshot that normalization returns, whatever weatherCode
\* the payload holds (none, text that is no number, an unknown or a known
\* code), the icon of the current conditions, of every daily forecast and of
\* every period is one of the 14 ids of the icon table.
C12_IconsInVocabulary ==
    (Parsed /\ snapshot.ok) =>
        /\ snapshot.v.current.icon \in IconIds
        /\ \A i \in 1..Len(snapshot.v.forecast) :
              /\ snapshot.v.forecast[i].icon \in IconIds
              /\ \A j \in 1..Len(snapshot.v.forecast[i].periods) :
                    snapshot.v.forecast[i].periods[j].icon \in IconIds

\* An hourly entry with the unknown code 999 was chosen for a day and its
\* periods, which got the default icon
C12_Witness ==
    /\ Parsed
    /\ snapshot.ok
    /\ WeatherCodes(payload.v) = {<<"1", "1", "3">>, <<"1", "1", "6">>, <<"9", "9", "9">>}
    /\ \E i \in 1..Len(snapshot.v.forecast) :
          /\ Len(payload.v["weather"][i]["hourly"]) = 1
          /\ snapshot.v.forecast[i].icon = DEFAULT_ICON
          /\ \A j \in 1..4 : snapshot.v.forecast[i].periods[j].icon = DEFAULT_ICON

\* The time of an hourly entry that is a number
Timed(entry) == "time" \in DOMAIN entry /\ int(entry["time"]).ok

\* The ways to read "time value" for an entry whose time is missing and for
\* one whose time is no number: it counts as 0, or the entry is no candidate
Readings == [missing : {"zero", "skip"}, text : {"zero", "skip"}]

reading_of(entry, reading) ==
    IF Timed(entry) THEN "timed"
    ELSE IF "time" \in DOMAIN entry THEN reading.text
    ELSE reading.missing

time_value(entry) == IF Timed(entry) THEN int(entry["time"]).v ELSE 0

\* The entries that have a time value under the reading
candidates(hourly, reading) ==
    {i \in 1..Len(hourly) : reading_of(hourly[i], reading) # "skip"}

\* The candidates closest to the target
closest(hourly, goal, among) ==
    {i \in among : \A j \in among :
        Abs(time_value(hourly[i]) - goal) <= Abs(time_value(hourly[j]) - goal)}

first_of(indexes) == CHOOSE i \in indexes : \A j \in indexes : i <= j

\* The entry is the first, in source order, of the closest candidates
IsFirstClosest(entry, hourly, goal, among) ==
    among # {} => entry = hourly[first_of(closest(hourly, goal, among))]

\* The claim for one hourly list under one reading
FirstClosestChosen(hourly, reading) ==
    /\ IsFirstClosest(_representative_hour(hourly), hourly, NOON, candidates(hourly, reading))
    /\ \A k \in 1..Len(PERIOD_DEFINITIONS) :
          IsFirstClosest(_closest_hour(hourly, PERIOD_DEFINITIONS[k].target), hourly,
                         PERIOD_DEFINITIONS[k].target, candidates(hourly, reading))

\* C14 (as claimed): for every day with hourly entries, the entry chosen for
\* each target (1200 for the day, 900, 1500, 2100, 300 for the periods) is
\* the first in source order of the entries whose time value is closest to
\* the target, also when entries have no time or a time that is no number,
\* whichever of the two ways such entries are read, so long as it is one way
\* for all five targets.
C14_FirstClosestEntry ==
    (Parsed /\ snapshot.ok) =>
        \E reading \in Readings :
            \A i \in 1..Len(snapshot.v.forecast) :
                FirstClosestChosen(Get(payload.v["weather"][i], "hourly", <<>>), reading)

\* The day holds the sunrise or sunset datum k
HasSun(day, k) ==
    /\ "astronomy" \in DOMAIN day
    /\ day["astronomy"] # <<>>
    /\ k \in DOMAIN day["astronomy"][1]

\* The base payload but for the astronomy of its days: the key absent, the
\* list empty, or its first object with both, one or none of the base texts
AstronomyOnly(p) ==
    /\ {"current_condition", "weather"} \subseteq DOMAIN p
    /\ p["current_condition"] = <<BaseCurrent>>
    /\ \A i \in 1..Len(p["weather"]) :
          /\ Without(p["weather"][i], "astronomy") = Without(BaseDay(i), "astronomy")
          /\ \A k \in {"sunrise", "sunset"} :
                HasSun(p["weather"][i], k) => p["weather"][i]["astronomy"][1][k] = BaseAstronomy[k]

\* C15 (as claimed): whenever a day's sunrise or sunset datum is absent (no
\* astronomy key, an empty astronomy list, or a first object without the
\* field) normalization succeeds with sunrise 06:00 and sunset 18:00 for
\* what is absent, and what is present is parsed as a 12-hour-clock time:
\* "08:30 AM" gives 08:30 and "05:45 PM" gives 17:45.
C15_SunDefaults ==
    (Parsed /\ AstronomyOnly(payload.v)) =>
        /\ snapshot.ok
        /\ \A i \in 1..Len(snapshot.v.forecast) :
              /\ snapshot.v.forecast[i].sunrise =
                    (IF HasSun(payload.v["weather"][i], "sunrise")
                     THEN [hour |-> 8, minute |-> 30] ELSE [hour |-> 6, minute |-> 0])
              /\ snapshot.v.forecast[i].sunset =
                    (IF HasSun(payload.v["weather"][i], "sunset")
                     THEN [hour |-> 17, minute |-> 45] ELSE [hour |-> 18, minute |-> 0])

---------------------------------------------------------------------------
(* Claims about the fetch and the render command, checked under Spec *)

\* A response that makes the fetch fail: a network error, a non-2xx status
\* or a body that is no JSON
FailedResponse(response) ==
    response.kind # "ok" \/ ~json_loads(response.body).ok

\* C1 (as claimed): an online fetch that fails, after an earlier one
\* succeeded, returns the payload of the last successful fetch and leaves the
\* cached payload as it was.
C1_FailedFetchFallsBack ==
    (/\ fetched.mode = "online"
     /\ FailedResponse(fetched.response)
     /\ fetched.good_before.ok)
        => (payload = fetched.good_before /\ cache = fetched.cache_before)

\* C2 (as claimed): an offline fetch makes no request; without a cache file
\* it raises and there is no snapshot, with a cache file it returns the
\* cached payload.
C2_OfflineFetch ==
    fetched.mode = "offline" =>
        /\ requests = 0
        /\ fetched.cache_before = NoFile => (~payload.ok /\ ~snapshot.ok)
        /\ fetched.cache_before # NoFile =>
              (payload.ok /\ payload.v = fetched.cache_before.doc)

\* prefix + "/" + name, and the name alone with an empty prefix
PrefixedName(prefix, name) ==
    IF strip_slash(prefix) = <<>> THEN name ELSE strip_slash(prefix) \o <<"/">> \o name

\* C5 (as claimed): without --key the object is stored under the prefix and
\* the file name of the path that was written.
C5_DefaultKeyIsRenderedName ==
    \A i \in 1..Len(uploads) :
        opts.key = <<>> =>
            uploads[i].key = PrefixedName(config.v.r2.key_prefix, path_name(uploads[i].file))

CredentialsMissing(r2) ==
    r2.access_key_id = "" \/ r2.secret_access_key = "" \/ r2.bucket = ""

\* The run is over and got as far as the upload decision
PastUploadDecision == pc \in {"done", "failed"} /\ echoed # <<>>

\* C6 (as claimed): --upload makes the command upload even with the enable
\* flag off, --no-upload makes it not upload even with the flag on, and
\* without either the flag decides (complete credentials given).
C6_OverrideForcesUpload ==
    (PastUploadDecision /\ ~CredentialsMissing(config.v.r2)) =>
        /\ opts.upload = "--upload" => uploads # <<>>
        /\ opts.upload = "--no-upload" => uploads = <<>>
        /\ opts.upload = "unset" => (uploads # <<>> <=> config.v.r2.enabled)

\* C7: the steps of a run happen in the order load_config, fetch, render and
\* write, echo "Saved <path>", upload; when the upload step raises (missing
\* credentials: before any upload_file call; or upload_file itself) the
\* image is written and reported, and the run has failed.
C7_SavedBeforeUpload ==
    /\ fetched.mode # "none" => config.ok
    /\ written # {} => (snapshot.ok /\ written = {target})
    /\ echoed # <<>> => (echoed[1] = <<"Saved", target>> /\ target \in written)
    /\ (pc = "upload_file" \/ uploads # <<>> \/ error \in {"R2Uploader", "upload_file"})
          => (echoed # <<>> /\ \A i \in 1..Len(uploads) : uploads[i].file = target)
    /\ error = "R2Uploader" => (pc = "failed" /\ uploads = <<>> /\ Len(echoed) = 1)
    /\ error = "upload_file" => (pc = "failed" /\ Len(uploads) = 1 /\ Len(echoed) = 1)
    /\ (config.ok /\ CredentialsMissing(config.v.r2)) => uploads = <<>>
    /\ (PastUploadDecision /\ should_upload(opts.upload, config.v.r2)
          /\ CredentialsMissing(config.v.r2)) => pc = "failed"

C7_Witness ==
    /\ pc = "failed"
    /\ error = "R2Uploader"
    /\ config.v.r2.enabled
    /\ CredentialsMissing(config.v.r2)
    /\ opts.output # <<>>
    /\ echoed = <<<<"Saved", opts.output>>>>
    /\ opts.output \in written
    /\ uploads = <<>>

---------------------------------------------------------------------------
(* Claims about the icon table, checked under SpecCode *)

\* C11: icon_name_for_code returns an icon id for every argument: for a code
\* of the table the one id whose set holds the code (no code is in two
\* sets), and the default id "skc" for None, zero and any other number.
C11_IconOfCode ==
    pc = "icon_done" =>
        /\ icon \in IconIds
        /\ \A name \in IconIds :
              (code.given /\ code.n \in CODE_ICON_MAP[name]) => icon = name
        /\ (~code.given \/ code.n = 0 \/ \A name \in IconIds : code.n \notin CODE_ICON_MAP[name])
              => icon = DEFAULT_ICON
        /\ \A a, b \in IconIds :
              a # b => CODE_ICON_MAP[a] \cap CODE_ICON_MAP[b] = {}

C11_Witness ==
    /\ pc = "icon_done"
    /\ code = Code(395)
    /\ icon = "tsra"

---------------------------------------------------------------------------
(* Claims about the renderer, checked under SpecRender *)

\* The 600x800 grayscale configuration
Grayscale600x800 ==
    config.ok /\ config.v.image_width = 600 /\ config.v.image_height = 800
        /\ config.v.grayscale

\* C13: with the 600x800 grayscale configuration, render of a snapshot with
\* any number of forecast days does not raise, writes a 600x800 image of
\* mode "L" to the output path and returns that path.
C13_RenderWritesCanvas ==
    (pc # "render" /\ Grayscale600x800) =>
        /\ pc = "echo"
        /\ image.saved
        /\ image.path = target
        /\ image.returned = target
        /\ written = {target}
        /\ image.mode = "L"
        /\ image.width = 600
        /\ image.height = 800

\* Rendered with no forecast day at all
C13_Witness ==
    /\ pc = "echo"
    /\ Grayscale600x800
    /\ snapshot.v.forecast = <<>>
    /\ image.saved
    /\ image.mode = "L"
    /\ Len(icon_log) = 1

---------------------------------------------------------------------------
(* Claims about the icon cache, checked under SpecIcons *)

\* The pairs called after the i-th call of the log
Later(log, i) == {log[j].key : j \in (i + 1)..Len(log)}

\* The maxsize most recently used pairs of the log: those with fewer than
\* maxsize other pairs called after them
MostRecent(log) ==
    {log[i].key : i \in {j \in 1..Len(log) : Cardinality(Later(log, j) \ {log[j].key}) < maxsize}}

\* Of a set of pairs, those that every other pair of the set was called after
LeastRecent(log, keys) ==
    {log[i].key : i \in {j \in 1..Len(log) : /\ log[j].key \in keys
                                                /\ keys \ {log[j].key} \subseteq Later(log, j)
                                                /\ log[j].key \notin Later(log, j)}}

\* The calls before the last one
Earlier == SubSeq(icon_log, 1, Len(icon_log) - 1)

\* The last call returned the image that the call which put the pair into
\* the cache had loaded
Memoized(last) ==
    \E j \in 1..Len(Earlier) :
        /\ Earlier[j].key = last.key
        /\ ~Earlier[j].hit
        /\ \A k \in (j + 1)..Len(Earlier) : Earlier[k].key = last.key => Earlier[k].hit
        /\ last.result = Earlier[j].result
        /\ last.result.serial = j

\* What the last call did
LastCallCached(last) ==
    /\ last.hit <=> last.key \in MostRecent(Earlier)
    /\ last.hit => Memoized(last)
    /\ ~last.hit => last.result = load_icon(last.key.icon_name, last.key.size, Len(icon_log))
    /\ (~last.hit /\ Cardinality(MostRecent(Earlier)) = maxsize)
          => MostRecent(Earlier) \ KeysOf(icon_cache) = LeastRecent(Earlier, MostRecent(Earlier))

\* C16: after any sequence of render_icon calls the cache holds at most 64
\* entries, one for each (icon_name, size) pair it holds; a call with a
\* pair in the cache returns the image loaded when the pair was put there
\* and loads nothing; a call with a new pair and a full cache drops the
\* least recently used pair, so that the cache holds the most recently used
\* pairs.
C16_IconCacheLru ==
    /\ Len(icon_cache) <= maxsize
    /\ Cardinality(KeysOf(icon_cache)) = Len(icon_cache)
    /\ KeysOf(icon_cache) = MostRecent(icon_log)
    /\ icon_log # <<>> => LastCallCached(icon_log[Len(icon_log)])

\* A full cache, a call with its least recently used pair, then a call with
\* a new pair: the pair that was next in line is dropped, the oldest stays
C16_Witness ==
    /\ pc = "icons_done"
    /\ Len(icon_log) = maxsize + 2
    /\ icon_log[maxsize + 1] = [key |-> Pair(1), hit |-> TRUE, result |-> load_icon("skc", 1, 1)]
    /\ ~icon_log[maxsize + 2].hit
    /\ Len(icon_cache) = maxsize
    /\ Pair(1) \in KeysOf(icon_cache)
    /\ Pair(2) \notin KeysOf(icon_cache)

====
